---- MODULE Spec2Model ----
(***************************************************************************)
(* Locomotion and scripted-movement controller (FPSControls) of the        *)
(* first-person scene: the scripted-move and teleport event handlers and   *)
(* the per-frame tick, over a fixed-point number model.                    *)
(*                                                                         *)
(* Units.  Time is counted in steps of 1/TicksPerSec s (0.05 s, the        *)
(* smallest duration the scripted-move handler accepts).  Velocities are   *)
(* in 1/VelPerMs m/s (cm/s), distances in cm, body positions in            *)
(* decimetres, unit vectors and blend factors in thousandths (Milli), yaw  *)
(* in quarter turns (pi/2 = QuarterTurn), look deltas in the number of    *)
(* pixels that turn the camera by one yaw unit.                            *)
(***************************************************************************)
EXTENDS Integers, Sequences, FiniteSets, TLC

VARIABLES
    bodyPresent,   \* bodyRef.current is not null
    override,      \* overrideRef.current (Null or the override record)
    plcEnabled,    \* pointer lock (free look) enabled flag
    axes,          \* inputStore movement axes {x, y}, in thousandths
    lookDelta,     \* inputStore pending touch look delta {dx, dy}
    touchMode,     \* inputStore isTouchMode()
    pos,           \* rigid body translation
    linvel,        \* rigid body linear velocity
    camYaw,        \* camera.rotation.y
    camVertical,   \* the camera looks straight up or down (flattened forward ~ 0)
    speed,         \* the speed prop: base walking speed, cm/s
    elapsed,       \* frame time the override has lived through since its request
                   \* (-1: requested while the body was absent, not timed)
    obs,           \* what the last controller operation read and wrote
    bobEnabled,    \* the bobEnabled prop
    bob,           \* bobRef.current: phase, intensity, smoothedHz
    feet,          \* what the bob animator read and the footsteps it reported
    door,          \* the door anchors of the scene (DoorEnd, DoorStart)
    trigger,       \* a trigger volume: its props, refs and callback log
    sound          \* SoundManager: the clock, lastFootstepAt and the footstep log

\* the bob animator's state and the scene around the controller
bobVars == <<bob, feet>>
sceneVars == <<door, trigger, sound>>

vars == <<bodyPresent, override, plcEnabled, axes, lookDelta, touchMode,
          pos, linvel, camYaw, camVertical, speed, elapsed, obs,
          bobEnabled, bobVars, sceneVars>>

----------------------------------------------------------------------------
(* Units of the number model *)

TicksPerSec == 20
VelPerMs == 100
Milli == 1000
QuarterTurn == 1
FullTurn == 4 * QuarterTurn

(* Bounds of the model *)

MaxDelta == 2        \* longest frame, in time steps
MaxDuration == 3     \* longest requested duration, in time steps
MaxYaw == 1          \* |camera yaw| and |pending look delta| the look inputs may reach
MaxVel == 4          \* largest velocity of the blending grid, in grid steps

----------------------------------------------------------------------------
(* Arithmetic helpers (Math.abs, Math.sign, Math.min, Math.max) *)

Abs(x) == IF x < 0 THEN -x ELSE x
Sign(x) == IF x > 0 THEN 1 ELSE IF x < 0 THEN -1 ELSE 0
Min(a, b) == IF a <= b THEN a ELSE b
Max(a, b) == IF a >= b THEN a ELSE b

\* fixed-point quotient, truncated toward zero
TDiv(a, b) == IF a >= 0 THEN a \div b ELSE -((-a) \div b)

\* fixed-point quotient, rounded to nearest
RDiv(a, b) == IF a >= 0 THEN (2 * a + b) \div (2 * b) ELSE -((2 * (-a) + b) \div (2 * b))

RECURSIVE SqrtFrom(_, _)
SqrtFrom(n, r) == IF (r + 1) * (r + 1) > n THEN r ELSE SqrtFrom(n, r + 1)

\* Math.sqrt on the fixed-point grid: the coarse root in hundreds first,
\* then refined
ISqrt(n) == SqrtFrom(n, SqrtFrom(n \div 10000, 0) * 100)

\* an optional field of an event detail: detail?.f ?? dflt
Opt(d, f, dflt) == IF f \in DOMAIN d THEN d[f] ELSE dflt

----------------------------------------------------------------------------
(* Camera basis *)

Sin4 == <<0, Milli, 0, -Milli>>
SinOf(yaw) == Sin4[(yaw % FullTurn) + 1]
CosOf(yaw) == SinOf(yaw + QuarterTurn)

\* camera.getWorldDirection at pitch 0: the -Z axis turned by the yaw
Forward(yaw) == [x |-> -SinOf(yaw), z |-> -CosOf(yaw)]

\* Vector3.lengthSq / Vector3.normalize on the horizontal plane
LengthSq(v) == v.x * v.x + v.z * v.z
\* (a vector of length one divides by one)
Normalize(v) ==
    IF LengthSq(v) = Milli * Milli THEN v
    ELSE LET len == ISqrt(LengthSq(v))
         IN IF len = 0 THEN v
            ELSE [x |-> RDiv(v.x * Milli, len), z |-> RDiv(v.z * Milli, len)]

\* right = forward x up
RightOf(f) == [x |-> -f.z, z |-> f.x]

----------------------------------------------------------------------------
(* Program constants, in model units *)

acceleration == (18 * VelPerMs) \div TicksPerSec       \* cm/s per time step
deceleration == (22 * VelPerMs) \div TicksPerSec
DeadZone == 1                                          \* 0.001 in thousandths
DefaultDuration == (12 * TicksPerSec) \div 10          \* 1.2 s
MinDuration == (5 * TicksPerSec) \div 100              \* 0.05 s
DefaultDistance == 150                                 \* 1.5 m
MinDistance == 5                                       \* 0.05 m
DefaultLookSlerp == 6 * Milli                          \* 6 per second, in thousandths
DefaultMoveDelay == (35 * TicksPerSec) \div 100        \* 0.35 s

SceneSpeed == 1 * VelPerMs                             \* speed={1.0}
DefaultSpeed == 2 * VelPerMs                           \* speed = 2

Null == [none |-> TRUE]
ZeroVel == [x |-> 0, y |-> 0, z |-> 0]
InitialPos == [x |-> 80, y |-> 0, z |-> 15]            \* position={[8,0,1.5]}

----------------------------------------------------------------------------
(* Scripted-move request: the "__scripted_move__" handler *)

\* the flattened, normalized camera forward captured by the handler
CaptureDir(yaw, vertical) ==
    LET f == IF vertical THEN [x |-> 0, z |-> 0] ELSE Forward(yaw)
    IN Normalize(IF LengthSq(f) < 1 THEN [x |-> 0, z |-> -Milli] ELSE f)

\* the override object the handler stores
NewOverride(detail, yaw, vertical) ==
    LET durationSec == Max(MinDuration, Opt(detail, "durationSec", DefaultDuration))
        distance == Max(MinDistance, Opt(detail, "distance", DefaultDistance))
    IN [timeLeft |-> durationSec,
        duration |-> durationSec,
        speed |-> TDiv(distance * TicksPerSec, durationSec),
        dir |-> CaptureDir(yaw, vertical),
        lockLook |-> Opt(detail, "lockLook", TRUE),
        lookAt |-> Opt(detail, "lookAt", <<>>),
        lookSlerp |-> Opt(detail, "lookSlerp", DefaultLookSlerp),
        moveDelayLeft |-> Max(0, Opt(detail, "moveDelaySec", DefaultMoveDelay))]

\* the phase of the controller: FREE, OVERRIDE_DELAY or OVERRIDE_MOVING
PhaseOf(ov) ==
    IF ov = Null THEN "free"
    ELSE IF ov.moveDelayLeft > 0 THEN "delay" ELSE "moving"

\* a variant where a request arriving during an override stops it instead
ToggleOverride(old, new) == IF old = Null THEN new ELSE Null

\* a variant that queues: the old override's remaining delay is carried over
QueueOverride(old, new) ==
    IF old = Null THEN new
    ELSE [new EXCEPT !.moveDelayLeft = Max(old.moveDelayLeft, new.moveDelayLeft)]

\* overrideRef.current = {...}: the new object replaces whatever was there
StoreOverride(old, new) == new

ScriptedMove(detail) ==
    /\ override' = StoreOverride(override, NewOverride(detail, camYaw, camVertical))
    /\ plcEnabled' = IF Opt(detail, "lockLook", TRUE) THEN FALSE ELSE plcEnabled
    /\ axes' = [x |-> 0, y |-> 0]
    /\ elapsed' = IF bodyPresent THEN 0 ELSE -1
    /\ obs' = [op |-> "move", body |-> bodyPresent, from |-> PhaseOf(override),
                detail |-> detail]
    /\ UNCHANGED <<speed, bodyPresent, lookDelta, touchMode, pos, linvel, camYaw, camVertical,
                   bobEnabled, bobVars, sceneVars>>

----------------------------------------------------------------------------
(* Teleport request: the "__teleport_to__" handler *)

\* the translation the handler writes
TeleportTarget(detail, t) ==
    [x |-> Opt(detail, "x", t.x),
     y |-> IF Opt(detail, "keepY", FALSE) THEN t.y ELSE Opt(detail, "y", t.y),
     z |-> Opt(detail, "z", t.z)]

\* a variant that lets an override still in its delay phase survive
KeepDelayedOverride(ov) == IF ov # Null /\ ov.moveDelayLeft > 0 THEN ov ELSE Null

\* "stop current scripted move": overrideRef.current = null
CancelOverride(ov) == Null

Teleport(detail) ==
    IF ~bodyPresent
    THEN /\ obs' = [op |-> "teleport", body |-> FALSE, from |-> PhaseOf(override),
                    detail |-> detail, before |-> pos, yawBefore |-> camYaw]
         /\ UNCHANGED <<speed, bodyPresent, override, plcEnabled, axes, lookDelta, touchMode,
                        pos, linvel, camYaw, camVertical, elapsed,
                   bobEnabled, bobVars, sceneVars>>
    ELSE /\ override' = CancelOverride(override)
         /\ linvel' = ZeroVel
         /\ pos' = TeleportTarget(detail, pos)
         /\ camYaw' = Opt(detail, "yaw", camYaw)
         /\ plcEnabled' = TRUE
         /\ axes' = [x |-> 0, y |-> 0]
         /\ elapsed' = 0
         /\ obs' = [op |-> "teleport", body |-> TRUE, from |-> PhaseOf(override),
                    detail |-> detail, before |-> pos, yawBefore |-> camYaw]
         /\ UNCHANGED <<speed, bodyPresent, lookDelta, touchMode, camVertical,
                   bobEnabled, bobVars, sceneVars>>

----------------------------------------------------------------------------
(* The per-frame tick (useFrame): movement *)

\* a variant of the gate with a strict comparison
canMoveStrict(ov) == IF ov # Null THEN ov.moveDelayLeft < 0 ELSE TRUE

canMove(ov) == IF ov # Null THEN ov.moveDelayLeft <= 0 ELSE TRUE

hasAxesMove(a) == Abs(a.x) > DeadZone \/ Abs(a.y) > DeadZone

isMoving(ov, a) == IF ov # Null THEN canMove(ov) ELSE hasAxesMove(a)

\* a variant in which the axes steer during an override as well
MoveDirMixed(ov, a, yaw) ==
    LET worldDir == Normalize(Forward(yaw))
        right == Normalize(RightOf(worldDir))
        steer == [x |-> TDiv(worldDir.x * a.y, Milli) + TDiv(right.x * a.x, Milli),
                  z |-> TDiv(worldDir.z * a.y, Milli) + TDiv(right.z * a.x, Milli)]
    IN IF ov # Null /\ canMove(ov)
       THEN [x |-> ov.dir.x + steer.x, z |-> ov.dir.z + steer.z]
       ELSE steer

\* a variant with the two axes swapped
MoveDirSwapped(ov, a, yaw) ==
    LET worldDir == Normalize(Forward(yaw))
        right == Normalize(RightOf(worldDir))
    IN IF ov # Null
       THEN IF canMove(ov) THEN ov.dir ELSE [x |-> 0, z |-> 0]
       ELSE IF hasAxesMove(a)
            THEN [x |-> TDiv(worldDir.x * a.x, Milli) + TDiv(right.x * a.y, Milli),
                  z |-> TDiv(worldDir.z * a.x, Milli) + TDiv(right.z * a.y, Milli)]
            ELSE [x |-> 0, z |-> 0]

\* a variant whose scripted movement follows the camera of the frame
MoveDirFollowsCamera(ov, a, yaw) ==
    LET worldDir == Normalize(Forward(yaw))
        right == Normalize(RightOf(worldDir))
    IN IF ov # Null
       THEN IF canMove(ov) THEN worldDir ELSE [x |-> 0, z |-> 0]
       ELSE IF hasAxesMove(a)
            THEN [x |-> TDiv(worldDir.x * a.y, Milli) + TDiv(right.x * a.x, Milli),
                  z |-> TDiv(worldDir.z * a.y, Milli) + TDiv(right.z * a.x, Milli)]
            ELSE [x |-> 0, z |-> 0]

\* the movement direction before normalization: the override's captured
\* direction, or forward * axes.y + right * axes.x
MoveDir(ov, a, yaw) ==
    LET worldDir == Normalize(Forward(yaw))
        right == Normalize(RightOf(worldDir))
    IN IF ov # Null
       THEN IF canMove(ov) THEN ov.dir ELSE [x |-> 0, z |-> 0]
       ELSE IF hasAxesMove(a)
            THEN [x |-> TDiv(worldDir.x * a.y, Milli) + TDiv(right.x * a.x, Milli),
                  z |-> TDiv(worldDir.z * a.y, Milli) + TDiv(right.z * a.x, Milli)]
            ELSE [x |-> 0, z |-> 0]

\* the desired horizontal velocity
Desired(ov, a, yaw, baseSpeedProp) ==
    LET dir == MoveDir(ov, a, yaw)
    IN IF isMoving(ov, a) /\ LengthSq(dir) > 0
       THEN LET n == Normalize(dir)
                baseSpeed == IF ov # Null THEN ov.speed ELSE baseSpeedProp
            IN [x |-> TDiv(n.x * baseSpeed, Milli), z |-> TDiv(n.z * baseSpeed, Milli)]
       ELSE [x |-> 0, z |-> 0]

\* a variant without the clamp to the target
moveTowardsUnclamped(current, target, delta) ==
    LET rate == IF Abs(target) > Abs(current) THEN acceleration ELSE deceleration
    IN current + Sign(target - current) * rate * delta

\* rate-limited approach of one velocity component to its target
moveTowards(current, target, delta) ==
    LET increasing == Abs(target) > Abs(current)
        rate == IF increasing THEN acceleration ELSE deceleration
        maxDelta == rate * delta
        deltaV == target - current
    IN IF Abs(deltaV) <= maxDelta THEN target
       ELSE current + Sign(deltaV) * maxDelta

\* a variant without the freeze of the delay phase
CommandedBlended(ov, lin, desired, delta) ==
    [x |-> moveTowards(lin.x, desired.x, delta),
     y |-> lin.y,
     z |-> moveTowards(lin.z, desired.z, delta)]

\* a variant that grounds the body while it is frozen
CommandedGrounded(ov, lin, desired, delta) ==
    IF ov # Null /\ ~canMove(ov)
    THEN [x |-> 0, y |-> 0, z |-> 0]
    ELSE CommandedBlended(ov, lin, desired, delta)

\* the velocity handed to body.setLinvel
Commanded(ov, lin, desired, delta) ==
    LET newVX == moveTowards(lin.x, desired.x, delta)
        newVZ == moveTowards(lin.z, desired.z, delta)
    IN IF ov # Null
       THEN IF canMove(ov)
            THEN [x |-> newVX, y |-> lin.y, z |-> newVZ]
            ELSE [x |-> 0, y |-> lin.y, z |-> 0]
       ELSE [x |-> newVX, y |-> lin.y, z |-> newVZ]

\* a variant whose duration timer waits for the delay to run out
AdvanceOverrideInTurn(ov, delta) ==
    IF ov = Null THEN Null
    ELSE IF ov.moveDelayLeft > 0
         THEN [ov EXCEPT !.moveDelayLeft = Max(0, ov.moveDelayLeft - delta)]
    ELSE IF ov.timeLeft - delta <= 0 THEN Null
    ELSE [ov EXCEPT !.timeLeft = ov.timeLeft - delta]

\* a variant that destroys the override one frame late
AdvanceOverrideLate(ov, delta) ==
    IF ov = Null THEN Null
    ELSE LET delayLeft == Max(0, ov.moveDelayLeft - delta)
             timeLeft == ov.timeLeft - delta
         IN IF timeLeft < 0 THEN Null
            ELSE [ov EXCEPT !.moveDelayLeft = delayLeft, !.timeLeft = timeLeft]

\* the scripted sequence timer: the override after the frame, or Null
AdvanceOverride(ov, delta) ==
    IF ov = Null THEN Null
    ELSE LET delayLeft == IF ov.moveDelayLeft > 0
                          THEN Max(0, ov.moveDelayLeft - delta)
                          ELSE ov.moveDelayLeft
             timeLeft == ov.timeLeft - delta
         IN IF timeLeft <= 0 THEN Null
            ELSE [ov EXCEPT !.moveDelayLeft = delayLeft, !.timeLeft = timeLeft]

\* Euler yaw recomputed from the quaternion lies in (-pi, pi]
NormYaw(y) == ((y + 2 * QuarterTurn - 1) % FullTurn) - (2 * QuarterTurn - 1)

\* the blend factor of the look-at slerp, in thousandths
SlerpK(ov, delta) == Min(Milli, Max(0, TDiv(ov.lookSlerp * delta, TicksPerSec)))

\* a variant that keeps turning the camera in the moving phase
SlerpsWhileMoving(ov) == ov # Null /\ ov.lockLook /\ ov.lookAt # <<>>

\* the look-at slerp is applied on this frame
Slerps(ov) == ov # Null /\ ov.lockLook /\ ov.lookAt # <<>> /\ ~canMove(ov)

\* the camera yaw after the look-at slerp along the shorter arc
SlerpYaw(ov, yaw, delta) ==
    IF Slerps(ov)
    THEN LET arc == NormYaw(ov.lookAt[1] - yaw)
         IN NormYaw(yaw + RDiv(arc * SlerpK(ov, delta), Milli))
    ELSE yaw

----------------------------------------------------------------------------
(* The per-frame tick (useFrame): the bob animator *)

\* the phase runs over one full turn of PhaseTurn units, so that a cadence
\* in thousandths of a hertz advances it by cadence * delta units
PhaseTurn == Milli * TicksPerSec
PhasePi == PhaseTurn \div 2

minStepFrequency == Milli \div 10                       \* 0.1 Hz
maxStepFrequency == (8 * Milli) \div 10                 \* 0.8 Hz
bobSmoothing == 8
stepSmoothing == 6
IntensityFloor == 1                                     \* 0.001
BobRest == [phase |-> 0, intensity |-> 0, smoothedHz |-> 0]
NoFeet == [speed2D |-> 0, set |-> 0, advance |-> 0, steps |-> <<>>, before |-> "none",
           normal |-> TRUE]

\* Math.hypot of a horizontal velocity
Speed2D(v) == ISqrt(v.x * v.x + v.z * v.z)

\* the speed the animator reads: Math.hypot(newVX, newVZ)
BlendedSpeed(lin, desired, delta) ==
    Speed2D([x |-> moveTowards(lin.x, desired.x, delta),
             z |-> moveTowards(lin.z, desired.z, delta)])

\* Math.min(1, rate * delta), in thousandths
BlendK(rate, delta) == Min(Milli, (rate * delta * Milli) \div TicksPerSec)

\* the % operator of the language: the remainder has the dividend's sign
Rem(a, b) == IF a >= 0 THEN a % b ELSE -((-a) % b)

\* a variant that takes one turn off only when the phase is beyond it
WrapPhaseOnce(p) == IF p > PhaseTurn THEN p - PhaseTurn ELSE p

\* (phase + advance) % (Math.PI * 2)
WrapPhase(p) == Rem(p, PhaseTurn)

\* a variant without the wrap-around case
crossedWithoutWrap(from, to, thr) == from < thr /\ to >= thr

\* a variant that reports a threshold on every wrap-around
crossedOnWrap(from, to, thr) ==
    \/ from < thr /\ to >= thr
    \/ from > to

\* crossed(thr): the phase went over thr on its way from `from` to `to`
crossed(from, to, thr) ==
    \/ from < thr /\ to >= thr
    \/ from > to /\ (from < thr \/ to >= thr)

\* intensity, cadence, phase and footsteps of one frame
BobStep(b, speed2D, baseSpeed, delta) ==
    LET normalizedSpeed == Min(Milli, (speed2D * Milli) \div Max(1, baseSpeed))
        intensity == b.intensity
                       + TDiv((normalizedSpeed - b.intensity) * BlendK(bobSmoothing, delta), Milli)
        targetHz == minStepFrequency
                      + TDiv((maxStepFrequency - minStepFrequency) * normalizedSpeed, Milli)
        stepHz == b.smoothedHz
                    + TDiv((targetHz - b.smoothedHz) * BlendK(stepSmoothing, delta), Milli)
        runs == intensity > IntensityFloor /\ stepHz > 0
        advance == IF runs THEN stepHz * delta ELSE 0
        phase == IF runs THEN WrapPhase(b.phase + advance) ELSE b.phase
        right == IF runs /\ crossed(b.phase, phase, 0) THEN <<"right">> ELSE <<>>
        left == IF runs /\ crossed(b.phase, phase, PhasePi) THEN <<"left">> ELSE <<>>
    IN [bob |-> [phase |-> phase, intensity |-> intensity, smoothedHz |-> stepHz],
        advance |-> advance,
        steps |-> right \o left]

\* the animator's part of the frame, with what it read and reported
Bobbing(speed2D, set, delta) ==
    LET r == BobStep(bob, speed2D, speed, delta)
    IN /\ bob' = r.bob
       /\ feet' = [speed2D |-> speed2D,
                   set |-> set,
                   advance |-> r.advance,
                   steps |-> r.steps,
                   before |-> IF feet.steps = <<>> THEN feet.before
                              ELSE feet.steps[Len(feet.steps)],
                   normal |-> feet.normal /\ r.advance < PhasePi]

----------------------------------------------------------------------------
(* The per-frame tick (useFrame): the whole callback *)

\* frame time since the last scripted-move request, while its override
\* exists (counted up to just past the override's duration)
Clock(ov, e, delta) ==
    IF ov = Null THEN 0
    ELSE IF e < 0 THEN e
    ELSE Min(e + delta, ov.duration + 1)

\* the operation right before this frame, as the frame's record keeps it
Handled(o) == IF o.op = "tick" THEN [op |-> "tick"] ELSE o

\* the callback's effect on the controller, the body and the camera
Frame(delta) ==
    IF ~bodyPresent
    THEN /\ obs' = [op |-> "tick", body |-> FALSE, from |-> PhaseOf(override),
                    canMove |-> canMove(override), prev |-> Handled(obs)]
         /\ UNCHANGED <<speed, bodyPresent, override, plcEnabled, axes, lookDelta, touchMode,
                        pos, linvel, camYaw, camVertical,
                        bobEnabled, bobVars, sceneVars>>
    ELSE LET ov == override
             desired == Desired(ov, axes, camYaw, speed)
             after == AdvanceOverride(ov, delta)
             slerped == SlerpYaw(ov, camYaw, delta)
             touchLook == touchMode /\ after = Null
             turned == touchLook /\ (lookDelta.dx # 0 \/ lookDelta.dy # 0)
             set == Commanded(ov, linvel, desired, delta)
         IN /\ linvel' = set
            /\ override' = after
            /\ plcEnabled' = IF ov # Null /\ after = Null THEN TRUE ELSE plcEnabled
            /\ camYaw' = IF turned THEN slerped - lookDelta.dx ELSE slerped
            /\ camVertical' = IF turned \/ (Slerps(ov) /\ SlerpK(ov, delta) > 0)
                              THEN FALSE ELSE camVertical
            /\ lookDelta' = IF touchLook THEN [dx |-> 0, dy |-> 0] ELSE lookDelta
            /\ obs' = [op |-> "tick", body |-> TRUE, from |-> PhaseOf(ov),
                       canMove |-> canMove(ov),
                       moved |-> linvel.x # 0 \/ linvel.z # 0,
                       y |-> <<linvel.y, set.y>>,
                       prev |-> Handled(obs)]
            /\ IF bobEnabled
               THEN Bobbing(BlendedSpeed(linvel, desired, delta), Speed2D(set), delta)
               ELSE UNCHANGED bobVars
            /\ UNCHANGED <<speed, bodyPresent, axes, touchMode, pos,
                           bobEnabled, sceneVars>>

\* a frame, with the frame time since the last request counted
Tick(delta) ==
    /\ Frame(delta)
    /\ elapsed' = IF bodyPresent
                  THEN Clock(AdvanceOverride(override, delta), elapsed, delta)
                  ELSE Clock(override, elapsed, delta)

----------------------------------------------------------------------------
(* The environment: mount, input devices, physics engine *)

\* the rigid body mounts and the ref is set
MountBody ==
    /\ ~bodyPresent
    /\ bodyPresent' = TRUE
    /\ UNCHANGED <<override, plcEnabled, axes, lookDelta, touchMode, pos, linvel,
                   camYaw, camVertical, speed, elapsed, obs,
                   bobEnabled, bobVars, sceneVars>>

\* keyboard or joystick: inputStore.setMoveAxes
SetAxes(x, y) ==
    /\ axes # [x |-> x, y |-> y]
    /\ axes' = [x |-> x, y |-> y]
    /\ UNCHANGED <<speed, bodyPresent, override, plcEnabled, lookDelta, touchMode, pos,
                   linvel, camYaw, camVertical, elapsed, obs,
                   bobEnabled, bobVars, sceneVars>>

\* touch look pad: the pending look delta accumulates until consumed
AddLookDelta(dx, dy) ==
    /\ touchMode
    /\ Abs(lookDelta.dx + dx) <= MaxYaw
    /\ Abs(camYaw - (lookDelta.dx + dx)) <= MaxYaw
    /\ Abs(lookDelta.dy + dy) <= MaxYaw
    /\ lookDelta' = [dx |-> lookDelta.dx + dx, dy |-> lookDelta.dy + dy]
    /\ obs' = [op |-> "look"]
    /\ UNCHANGED <<speed, bodyPresent, override, plcEnabled, axes, touchMode, pos, linvel,
                   camYaw, camVertical, elapsed,
                   bobEnabled, bobVars, sceneVars>>

\* PointerLockControls: mouse look while the controls are enabled
MouseLook(dyaw, vertical) ==
    /\ ~touchMode
    /\ plcEnabled
    /\ Abs(camYaw + dyaw) <= MaxYaw
    /\ camYaw' = camYaw + dyaw
    /\ camVertical' = vertical
    /\ obs' = [op |-> "look"]
    /\ UNCHANGED <<speed, bodyPresent, override, plcEnabled, axes, lookDelta, touchMode,
                   pos, linvel, elapsed,
                   bobEnabled, bobVars, sceneVars>>

\* the physics engine owns the body between frames: a contact stalls the
\* horizontal velocity, gravity and the ground set the vertical one
PhysicsStep(stall, vy) ==
    /\ bodyPresent
    /\ linvel' = [x |-> IF stall THEN 0 ELSE linvel.x,
                  y |-> vy,
                  z |-> IF stall THEN 0 ELSE linvel.z]
    /\ linvel' # linvel
    /\ UNCHANGED <<speed, bodyPresent, override, plcEnabled, axes, lookDelta, touchMode,
                   pos, camYaw, camVertical, elapsed, obs,
                   bobEnabled, bobVars, sceneVars>>

----------------------------------------------------------------------------
(* Requests and frames the model draws from *)

Deltas == 0 .. MaxDelta

\* event details of "__scripted_move__": omitted fields take the defaults
MoveDetails ==
    { [durationSec |-> 0, distance |-> 0, moveDelaySec |-> -1],
      [durationSec |-> MaxDuration, distance |-> 12, moveDelaySec |-> 1,
       lockLook |-> FALSE],
      [durationSec |-> MaxDuration - 1, distance |-> 12, moveDelaySec |-> MaxDuration + 1],
      [durationSec |-> MaxDuration, distance |-> 12, moveDelaySec |-> 2,
       lookAt |-> <<QuarterTurn>>, lookSlerp |-> 10 * Milli] }

\* event details of "__teleport_to__"
TeleportDetails ==
    { [x |-> 20, y |-> 2, z |-> 10, keepY |-> TRUE, yaw |-> QuarterTurn],
      << >> }

\* a teleport that changes the height only
TeleportUp == [y |-> 2]

\* movement axes the input devices set
AxesInputs == { [x |-> 0, y |-> 0], [x |-> Milli, y |-> -Milli] }

\* vertical velocities gravity and the ground leave the body with
PhysicsFall == {0, -50}

\* the request openStartDoor dispatches: 2.2 s, 2.4 m, look locked onto a
\* point on the -X side of the door, slerp rate 2.5, move delay 0.35 s
DoorDuration == (22 * TicksPerSec) \div 10
DoorDistance == 240
DoorDelay == (35 * TicksPerSec) \div 100
DoorLookSlerp == (25 * Milli) \div 10
DoorMove ==
    [durationSec |-> DoorDuration, distance |-> DoorDistance, lockLook |-> TRUE,
     lookAt |-> <<QuarterTurn>>, lookSlerp |-> DoorLookSlerp, moveDelaySec |-> DoorDelay]

\* velocities the blending is tried on
VelStep == VelPerMs \div 2
VelGrid == { VelStep * k : k \in (-MaxVel) .. MaxVel }

----------------------------------------------------------------------------
(* The doors of the basement: the frame mapper and the door-end teleport *)

\* lengths of the door scene, in decimetres: the proximity threshold (1.0 m)
\* and the shift added to the target's X (0.8 m)
DoorThreshold == 10
DoorShift == 8

\* pending closeDoor timers the model keeps track of
MaxTimers == 2

\* camera height above the body centre: eyeHeight - baseOffset, with
\* baseOffset = capsuleHeight / 2 + capsuleRadius (3.75, 1.85 and 0.25 m)
EyeLift == (3750 - (1850 \div 2 + 250)) \div 100

\* camera.position as the last frame left it (bob switched off)
CameraPos == [x |-> pos.x, y |-> pos.y + EyeLift, z |-> pos.z]

\* a rotation about the vertical axis by rot quarter turns
RotateY(rot, p) ==
    [x |-> (p.x * CosOf(rot) + p.z * SinOf(rot)) \div Milli,
     y |-> p.y,
     z |-> (p.z * CosOf(rot) - p.x * SinOf(rot)) \div Milli]

\* Vector3.applyMatrix4 with the matrixWorld of an anchor: rotate, translate
ApplyMatrix4(A, p) ==
    LET r == RotateY(A.rot, p)
    IN [x |-> r.x + A.t.x, y |-> r.y + A.t.y, z |-> r.z + A.t.z]

\* an inverse that turns back but leaves the translation in world axes
InvertUnturned(A) ==
    [rot |-> (FullTurn - A.rot) % FullTurn,
     t |-> [x |-> -A.t.x, y |-> -A.t.y, z |-> -A.t.z]]

\* Matrix4.invert of a rotation and translation
Invert(A) ==
    LET back == (FullTurn - A.rot) % FullTurn
        r == RotateY(back, A.t)
    IN [rot |-> back, t |-> [x |-> -r.x, y |-> -r.y, z |-> -r.z]]

\* getWorldPosition of an anchor
WorldPosition(A) == A.t

DistanceSq(p, q) ==
    (p.x - q.x) * (p.x - q.x) + (p.y - q.y) * (p.y - q.y) + (p.z - q.z) * (p.z - q.z)

\* endPos.distanceTo(camera.position) <= threshold
NearDoorEnd(d, cam) ==
    DistanceSq(WorldPosition(d.end), cam) <= DoorThreshold * DoorThreshold

\* playerWorld.applyMatrix4(invEndMatrix)
PlayerLocalToEnd(d, cam) == ApplyMatrix4(Invert(d.end), cam)

\* localXZ.applyMatrix4(startMatrix), the vertical component zeroed
TargetWorld(d, cam) ==
    LET l == PlayerLocalToEnd(d, cam)
    IN ApplyMatrix4(d.start, [x |-> l.x, y |-> 0, z |-> l.z])

\* Math.atan2(x, z) of a vector along an axis, in quarter turns; atan2(0, 0) is 0
Atan2(x, z) ==
    IF x = 0 THEN (IF z >= 0 THEN 0 ELSE 2 * QuarterTurn)
    ELSE IF x > 0 THEN QuarterTurn ELSE -QuarterTurn

\* the yaw "so the player looks at DoorStart": the direction from startPos
\* moved back by the player's distance along X, to startPos
FacingYaw(d, cam) ==
    LET l == PlayerLocalToEnd(d, cam)
        distanceOfPlayerFromDoorEnd == ISqrt(l.x * l.x + l.z * l.z)
        startPos == WorldPosition(d.start)
        startTeleportPos == [startPos EXCEPT !.x = @ - distanceOfPlayerFromDoorEnd]
        lookDir == Normalize([x |-> (startPos.x - startTeleportPos.x) * Milli,
                              z |-> (startPos.z - startTeleportPos.z) * Milli])
    IN Atan2(lookDir.x, lookDir.z)

\* the detail of the "__teleport_to__" event the door dispatches
DoorTeleportDetail(d, cam) ==
    [x |-> TargetWorld(d, cam).x + DoorShift, z |-> TargetWorld(d, cam).z,
     keepY |-> TRUE, yaw |-> FacingYaw(d, cam)]

\* angles of the door leaf, in milliradians: a quarter turn (Math.PI / 2) and
\* the turn of one time step at 1.2 rad/s
HalfPi == 1571
DoorSpeed == 1200 \div TicksPerSec

\* the distance from which tryDoorEndTeleport walks the player to the door
\* (1 m) and the duration of that walk (1 s)
ApproachThreshold == 10
ApproachDuration == TicksPerSec

\* the delay of the closeDoor timer (3200 ms), in time steps
DoorCloseAfter == (32 * TicksPerSec) \div 10

\* openStartDoor: the door starts turning to its open angle and a timer
\* for closeDoor is set
OpenStartDoor(d) ==
    [d EXCEPT !.targetY = d.initialY - HalfPi, !.opening = TRUE,
              !.timers = @ + 1, !.clocks = Append(@, DoorCloseAfter)]

\* closeDoor, run by the oldest timer of openStartDoor
Close(d) ==
    [d EXCEPT !.targetY = d.initialY, !.opening = TRUE, !.opened = FALSE,
              !.timers = @ - 1, !.clocks = Tail(@)]

\* the time between two frames runs down the timers, and those that ran out
\* call closeDoor before the next frame's callback
Elapse(d, delta) ==
    [d EXCEPT !.clocks = [i \in DOMAIN @ |-> Max(0, @[i] - delta)]]
RECURSIVE FireDue(_)
FireDue(d) ==
    IF d.clocks # <<>> /\ Head(d.clocks) = 0 THEN FireDue(Close(d)) ELSE d
SinceLastFrame(d, delta) == FireDue(Elapse(d, delta))

\* tryOpenStart's proximity check: doorPos.distanceTo(camera.position) <= threshold
NearDoorStart(d, cam) ==
    DistanceSq(WorldPosition(d.start), cam) <= DoorThreshold * DoorThreshold

\* the approach of tryDoorEndTeleport, taken farther than the approach
\* threshold: a walk of the distance to DoorEnd is dispatched and a timer is
\* set to try again
Approaching(d, cam) ==
    DistanceSq(WorldPosition(d.end), cam) > ApproachThreshold * ApproachThreshold
ApproachMove(d, cam) ==
    [durationSec |-> ApproachDuration,
     distance |-> 10 * SqrtFrom(DistanceSq(WorldPosition(d.end), cam), 0)]
ApproachOverride(ov, d, cam, yaw, vertical) ==
    IF Approaching(d, cam)
    THEN StoreOverride(ov, NewOverride(ApproachMove(d, cam), yaw, vertical))
    ELSE ov
ApproachRetry(d, cam) ==
    IF Approaching(d, cam) THEN [d EXCEPT !.retries = @ + 1] ELSE d

\* the door animation of one frame: turn towards the target at DoorSpeed,
\* stop on it; the matrixWorld of the leaf follows to the quarter turn
Animate(d, delta) ==
    IF ~d.opening THEN d
    ELSE LET step == Sign(d.targetY - d.rotationY) * DoorSpeed * delta
             next == d.rotationY + step
             complete == \/ step > 0 /\ next >= d.targetY
                         \/ step < 0 /\ next <= d.targetY
             y == IF complete THEN d.targetY ELSE next
         IN [d EXCEPT !.rotationY = y,
                      !.start.rot = RDiv(y, HalfPi) % FullTurn,
                      !.opening = ~complete,
                      !.opened = IF complete THEN ~@ ELSE @]

\* a variant where the scripted-move event is handled before the teleport event
DoorOverrideSwapped(ov, yaw, vertical, body) ==
    LET moved == StoreOverride(ov, NewOverride(DoorMove, yaw, vertical))
    IN IF body THEN CancelOverride(moved) ELSE moved

\* the override after both events of the door: the teleport handler (which
\* ignores the event without a body) and then the scripted-move handler
DoorOverride(ov, yaw, vertical, body) ==
    LET teleported == IF body THEN CancelOverride(ov) ELSE ov
    IN StoreOverride(teleported, NewOverride(DoorMove, yaw, vertical))

\* the Basement frame with the interact flag set and the player near DoorEnd:
\* tryDoorEndTeleport dispatches the teleport event and calls
\* openStartDoor(true) with its scripted-move event, both handled inside
\* the call; then the door animation
DoorEndTeleport(delta) ==
    /\ door # Null
    /\ SinceLastFrame(door, delta).timers < MaxTimers
    /\ NearDoorEnd(door, CameraPos)
    /\ LET detail == DoorTeleportDetail(door, CameraPos)
           yawAfter == IF bodyPresent THEN Opt(detail, "yaw", camYaw) ELSE camYaw
       IN /\ pos' = IF bodyPresent THEN TeleportTarget(detail, pos) ELSE pos
          /\ linvel' = IF bodyPresent THEN ZeroVel ELSE linvel
          /\ camYaw' = yawAfter
          /\ override' = DoorOverride(ApproachOverride(override, door, CameraPos,
                                                        camYaw, camVertical),
                                       yawAfter, camVertical, bodyPresent)
          /\ plcEnabled' = FALSE
          /\ axes' = [x |-> 0, y |-> 0]
          /\ elapsed' = IF bodyPresent THEN 0 ELSE -1
          /\ door' = Animate(OpenStartDoor(ApproachRetry(SinceLastFrame(door, delta), CameraPos)),
                             delta)
          /\ obs' = [op |-> "door", body |-> bodyPresent, from |-> PhaseOf(override),
                     detail |-> detail, before |-> pos, yawBefore |-> camYaw,
                     local |-> PlayerLocalToEnd(door, CameraPos)]
    /\ UNCHANGED <<speed, bodyPresent, lookDelta, touchMode, camVertical,
                   bobEnabled, bobVars, trigger, sound>>

\* the Basement frame with the interact flag set and the player away from
\* DoorEnd: tryDoorEndTeleport returns false at its proximity check and
\* tryOpenStart(true) opens DoorStart if the player is near it; then the
\* door animation
DoorStartOpen(delta) ==
    /\ door # Null
    /\ ~NearDoorEnd(door, CameraPos)
    /\ IF NearDoorStart(door, CameraPos)
       THEN /\ SinceLastFrame(door, delta).timers < MaxTimers
            /\ override' = StoreOverride(override, NewOverride(DoorMove, camYaw, camVertical))
            /\ plcEnabled' = FALSE
            /\ axes' = [x |-> 0, y |-> 0]
            /\ elapsed' = IF bodyPresent THEN 0 ELSE -1
            /\ door' = Animate(OpenStartDoor(SinceLastFrame(door, delta)), delta)
            /\ obs' = [op |-> "interact", body |-> bodyPresent,
                       from |-> PhaseOf(override), opens |-> TRUE]
       ELSE /\ door' = Animate(SinceLastFrame(door, delta), delta)
            /\ obs' = [op |-> "interact", body |-> bodyPresent,
                       from |-> PhaseOf(override), opens |-> FALSE]
            /\ UNCHANGED <<override, plcEnabled, axes, elapsed>>
    /\ UNCHANGED <<speed, bodyPresent, lookDelta, touchMode, pos, linvel, camYaw,
                   camVertical, bobEnabled, bobVars, trigger, sound>>

\* the Basement frame without an interaction: the door animation
DoorFrame(delta) ==
    /\ door # Null
    /\ door' = Animate(SinceLastFrame(door, delta), delta)
    /\ UNCHANGED <<speed, bodyPresent, override, plcEnabled, axes, lookDelta, touchMode,
                   pos, linvel, camYaw, camVertical, elapsed, obs,
                   bobEnabled, bobVars, trigger, sound>>

\* closeDoor run by a timer of openStartDoor at a time that no frame of the
\* door has counted
CloseDoor ==
    /\ door # Null
    /\ door.timers > 0
    /\ door' = Close(door)
    /\ UNCHANGED <<speed, bodyPresent, override, plcEnabled, axes, lookDelta, touchMode,
                   pos, linvel, camYaw, camVertical, elapsed, obs,
                   bobEnabled, bobVars, trigger, sound>>

----------------------------------------------------------------------------
(* Triggers: TriggerBox (physics sensor) and ProximityTrigger (camera distance) *)

\* events a trigger is followed through
MaxEvents == 6

\* camera distances from the centre of a proximity trigger, and its radius
MaxDistance == 2
TriggerRadius == 1

\* onEnter?.() / onExit?.(): the callback is recorded
Called(t, cb) == [t EXCEPT !.calls = Append(@, cb)]

\* a trigger that never switches itself off
NeverDisabled(t) == FALSE

\* once && doneRef.current
Disabled(t) == t.once /\ t.done

\* onIntersectionEnter of the sensor collider
IntersectionEnter ==
    /\ trigger # Null
    /\ trigger.kind = "box"
    /\ trigger.seen < MaxEvents
    /\ LET t == IF Disabled(trigger) THEN trigger
                ELSE [Called(trigger, "enter") EXCEPT !.done = (trigger.once \/ @)]
       IN trigger' = [t EXCEPT !.seen = @ + 1, !.entered = TRUE]
    /\ UNCHANGED <<speed, bodyPresent, override, plcEnabled, axes, lookDelta, touchMode,
                   pos, linvel, camYaw, camVertical, elapsed, obs,
                   bobEnabled, bobVars, door, sound>>

\* onIntersectionExit of the sensor collider
IntersectionExit ==
    /\ trigger # Null
    /\ trigger.kind = "box"
    /\ trigger.seen < MaxEvents
    /\ LET t == IF Disabled(trigger) THEN trigger ELSE Called(trigger, "exit")
       IN trigger' = [t EXCEPT !.seen = @ + 1]
    /\ UNCHANGED <<speed, bodyPresent, override, plcEnabled, axes, lookDelta, touchMode,
                   pos, linvel, camYaw, camVertical, elapsed, obs,
                   bobEnabled, bobVars, door, sound>>

\* the frame callback of ProximityTrigger, the camera d away from the centre
ProximityFrame(d) ==
    /\ trigger # Null
    /\ trigger.kind = "proximity"
    /\ trigger.seen < MaxEvents
    /\ LET inside == d <= TriggerRadius
           t == IF Disabled(trigger) THEN trigger
                ELSE IF inside /\ ~trigger.inside
                     THEN [Called(trigger, "enter") EXCEPT !.inside = TRUE,
                                                          !.done = (trigger.once \/ @)]
                ELSE IF ~inside /\ trigger.inside
                     THEN [Called(trigger, "exit") EXCEPT !.inside = FALSE]
                ELSE trigger
       IN trigger' = [t EXCEPT !.seen = @ + 1, !.entered = (@ \/ inside)]
    /\ UNCHANGED <<speed, bodyPresent, override, plcEnabled, axes, lookDelta, touchMode,
                   pos, linvel, camYaw, camVertical, elapsed, obs,
                   bobEnabled, bobVars, door, sound>>

----------------------------------------------------------------------------
(* Footstep sounds: SoundManager.playFootstep behind the "__footstep__" event *)

\* the rate limit, in milliseconds
FootstepGap == 110

\* footstep events a run of the sound manager is followed through
MaxFootsteps == 5

\* milliseconds between one footstep event and the next
FootstepSpacing == {0, 50, FootstepGap - 1, FootstepGap, 2 * FootstepGap}

\* the sound manager when the page has just loaded (performance.now() = 0)
SoundAtLoad ==
    [now |-> 0, lastFootstepAt |-> 0, accepted |-> <<>>, played |-> <<>>, events |-> 0]

\* a variant without the limit
NeverRateLimited(s) == FALSE

\* now - this.lastFootstepAt < 110
RateLimited(s) == s.now - s.lastFootstepAt < FootstepGap

\* playFootstep at the time s.now; has: the buffer of the sample drawn is loaded
PlayFootstep(s, has) ==
    IF RateLimited(s) THEN s
    ELSE [s EXCEPT !.lastFootstepAt = s.now,
                   !.accepted = Append(@, s.now),
                   !.played = IF has THEN Append(@, s.now) ELSE @]

\* a "__footstep__" event arrives dt ms after the one before
FootstepEvent(dt, has) ==
    /\ sound.events < MaxFootsteps
    /\ sound' = PlayFootstep([sound EXCEPT !.now = @ + dt, !.events = @ + 1], has)
    /\ UNCHANGED <<speed, bodyPresent, override, plcEnabled, axes, lookDelta, touchMode,
                   pos, linvel, camYaw, camVertical, elapsed, obs,
                   bobEnabled, bobVars, door, trigger>>

----------------------------------------------------------------------------
(* The controller with its environment *)

Init ==
    /\ bodyPresent = FALSE
    /\ override = Null
    /\ plcEnabled = TRUE
    /\ axes = [x |-> 0, y |-> 0]
    /\ lookDelta = [dx |-> 0, dy |-> 0]
    /\ touchMode \in BOOLEAN
    /\ pos = InitialPos
    /\ linvel = ZeroVel
    /\ camYaw = 0
    /\ camVertical = FALSE
    /\ speed = SceneSpeed
    /\ elapsed = 0
    /\ obs = [op |-> "init"]
    /\ bobEnabled \in BOOLEAN
    /\ bob = BobRest
    /\ feet = NoFeet
    /\ door = Null
    /\ trigger = Null
    /\ sound = SoundAtLoad

\* the controller, the movement input and the physics engine
Controller ==
    \/ MountBody
    \/ \E d \in MoveDetails : ScriptedMove(d)
    \/ \E d \in TeleportDetails : Teleport(d)
    \/ \E delta \in Deltas : Tick(delta)
    \/ \E a \in AxesInputs : SetAxes(a.x, a.y)
    \/ \E stall \in BOOLEAN, vy \in PhysicsFall : PhysicsStep(stall, vy)

\* on a desktop (isTouchMode() false) and on a touch device, with the bob
\* animator switched off (bobEnabled={false})
InitDesktop == Init /\ touchMode = FALSE /\ bobEnabled = FALSE
InitTouch == Init /\ touchMode = TRUE /\ bobEnabled = FALSE

\* desktop: look through PointerLockControls
Next ==
    \/ Controller
    \/ \E dyaw \in {-1, 1}, v \in BOOLEAN : MouseLook(dyaw, v)

Spec == InitDesktop /\ [][Next]_vars

\* touch device: look through the pending look delta
NextTouch ==
    \/ Controller
    \/ Teleport(TeleportUp)
    \/ \E dx \in {-1, 1} : AddLookDelta(dx, 0)

SpecTouch == InitTouch /\ [][NextTouch]_vars

\* frames keep coming, each with a positive frame time (requestAnimationFrame)
TickPositive == \E delta \in 1 .. MaxDelta : Tick(delta)

\* the life of overrides: requests, teleports and fairly scheduled frames
NextLife ==
    \/ MountBody
    \/ \E d \in MoveDetails : ScriptedMove(d)
    \/ \E d \in TeleportDetails : Teleport(d)
    \/ \E delta \in Deltas : Tick(delta)

SpecLife == InitDesktop /\ [][NextLife]_vars /\ WF_vars(TickPositive)

\* the start door scenario: the door's request, frames, input and physics
NextDoor ==
    \/ MountBody
    \/ ScriptedMove(DoorMove)
    \/ \E delta \in Deltas : Tick(delta)
    \/ \E a \in AxesInputs : SetAxes(a.x, a.y)
    \/ \E stall \in BOOLEAN, vy \in PhysicsFall : PhysicsStep(stall, vy)
    \/ \E dyaw \in {-1, 1}, v \in BOOLEAN : MouseLook(dyaw, v)

SpecDoor == InitDesktop /\ [][NextDoor]_vars

\* velocity blending on its own: one horizontal component approaching a
\* fixed desired value, frame after frame
InitBlend ==
    /\ bodyPresent = TRUE
    /\ override = Null
    /\ plcEnabled = TRUE
    /\ axes = [x |-> 0, y |-> 0]
    /\ lookDelta = [dx |-> 0, dy |-> 0]
    /\ touchMode = FALSE
    /\ pos = InitialPos
    /\ \E current \in VelGrid, target \in VelGrid :
          /\ linvel = [x |-> current, y |-> 0, z |-> 0]
          /\ obs = [op |-> "blend", target |-> target, prev |-> current, frames |-> 0]
    /\ camYaw = 0
    /\ camVertical = FALSE
    /\ speed = SceneSpeed
    /\ elapsed = 0
    /\ bobEnabled = FALSE
    /\ bob = BobRest
    /\ feet = NoFeet
    /\ door = Null
    /\ trigger = Null
    /\ sound = SoundAtLoad

\* const newVX = moveTowards(lin.x, desiredX)
Blend(delta) ==
    /\ linvel' = [linvel EXCEPT !.x = moveTowards(linvel.x, obs.target, delta)]
    /\ obs' = [obs EXCEPT !.prev = linvel.x, !.frames = Min(1, obs.frames + 1)]
    /\ UNCHANGED <<bodyPresent, override, plcEnabled, axes, lookDelta, touchMode, pos,
                   camYaw, camVertical, speed, elapsed,
                   bobEnabled, bobVars, sceneVars>>

NextBlend == \E delta \in Deltas : Blend(delta)

SpecBlend == InitBlend /\ [][NextBlend]_vars

\* walking: the strafe axis held at 1 from rest for a second and more, the
\* camera still, the body reporting the velocity last commanded
HeldAxes == [x |-> Milli, y |-> 0]
WalkTime == TicksPerSec + 1

InitWalk ==
    /\ bodyPresent = TRUE
    /\ override = Null
    /\ plcEnabled = TRUE
    /\ axes = HeldAxes
    /\ lookDelta = [dx |-> 0, dy |-> 0]
    /\ touchMode = FALSE
    /\ pos = InitialPos
    /\ \E vy \in PhysicsFall : linvel = [x |-> 0, y |-> vy, z |-> 0]
    /\ camYaw \in (-QuarterTurn) .. (2 * QuarterTurn)
    /\ camVertical = FALSE
    /\ speed \in {SceneSpeed, DefaultSpeed}
    /\ elapsed = 0
    /\ obs = [op |-> "init"]
    /\ bobEnabled = FALSE
    /\ bob = BobRest
    /\ feet = NoFeet
    /\ door = Null
    /\ trigger = Null
    /\ sound = SoundAtLoad

\* a frame, with the frame time since the axes were deflected counted
WalkTick(delta) ==
    /\ Frame(delta)
    /\ elapsed' = Min(elapsed + delta, WalkTime)

NextWalk == \E delta \in Deltas : WalkTick(delta)

SpecWalk == InitWalk /\ [][NextWalk]_vars

\* the bob animator at work (bobEnabled, the default): frames from a fifth
\* of a second to a full second, forward input, the door's request and
\* teleports
BobDeltas == {0, TicksPerSec \div 5, TicksPerSec \div 4, TicksPerSec \div 2, TicksPerSec}
BobAxes == { [x |-> 0, y |-> 0], [x |-> 0, y |-> Milli] }

InitBob == Init /\ touchMode = FALSE /\ bobEnabled = TRUE

NextBob ==
    \/ MountBody
    \/ ScriptedMove(DoorMove)
    \/ \E d \in TeleportDetails : Teleport(d)
    \/ \E delta \in BobDeltas : Tick(delta)
    \/ \E a \in BobAxes : SetAxes(a.x, a.y)

SpecBob == InitBob /\ [][NextBob]_vars

\* the door-end passage: the two door anchors of the loaded scene, the
\* player standing around DoorEnd, the interaction, the close timers and frames
AnchorTurns == 0 .. (FullTurn - 1)
EndAt == [x |-> 20, y |-> EyeLift, z |-> 30]
StartAt == [x |-> 80, y |-> EyeLift, z |-> 10]
PortalOffsets == {-6, 0, 6}
PortalDoors ==
    { [end |-> [rot |-> re, t |-> EndAt], start |-> [rot |-> rs, t |-> StartAt],
       initialY |-> rs * HalfPi, rotationY |-> rs * HalfPi, targetY |-> 0,
       opening |-> FALSE, opened |-> FALSE, timers |-> 0, clocks |-> <<>>,
       retries |-> 0] : re \in AnchorTurns, rs \in AnchorTurns }

InitPortal ==
    /\ bodyPresent = FALSE
    /\ override = Null
    /\ plcEnabled = TRUE
    /\ axes = [x |-> 0, y |-> 0]
    /\ lookDelta = [dx |-> 0, dy |-> 0]
    /\ touchMode = FALSE
    /\ pos \in { [x |-> EndAt.x + dx, y |-> 0, z |-> EndAt.z + dz] :
                 dx \in PortalOffsets, dz \in PortalOffsets }
    /\ linvel = ZeroVel
    /\ camYaw \in {0, 2 * QuarterTurn}
    /\ camVertical = FALSE
    /\ speed = SceneSpeed
    /\ elapsed = 0
    /\ obs = [op |-> "init"]
    /\ bobEnabled = FALSE
    /\ bob = BobRest
    /\ feet = NoFeet
    /\ door \in PortalDoors
    /\ trigger = Null
    /\ sound = SoundAtLoad

NextPortal ==
    \/ MountBody
    \/ DoorEndTeleport(0)     \* the interaction's frame counts no time here
    \/ CloseDoor
    \/ \E delta \in Deltas : Tick(delta)

SpecPortal == InitPortal /\ [][NextPortal]_vars

\* the door leaf on its own: the player stands at DoorStart, within reach of
\* it or just out of reach, presses interact on some frames and the timers
\* of openStartDoor fire 3.2 s later; frames keep coming
LeafOffsets == {0, 12}
LeafDoors == { d \in PortalDoors : d.end.rot = 0 /\ d.start.rot = QuarterTurn }
InitLeaf ==
    /\ bodyPresent = FALSE
    /\ override = Null
    /\ plcEnabled = TRUE
    /\ axes = [x |-> 0, y |-> 0]
    /\ lookDelta = [dx |-> 0, dy |-> 0]
    /\ touchMode = FALSE
    /\ pos \in { [x |-> StartAt.x + dx, y |-> 0, z |-> StartAt.z] : dx \in LeafOffsets }
    /\ linvel = ZeroVel
    /\ camYaw = 0
    /\ camVertical = FALSE
    /\ speed = SceneSpeed
    /\ elapsed = 0
    /\ obs = [op |-> "init"]
    /\ bobEnabled = FALSE
    /\ bob = BobRest
    /\ feet = NoFeet
    /\ door \in LeafDoors
    /\ trigger = Null
    /\ sound = SoundAtLoad

NextLeaf ==
    \/ \E delta \in Deltas : DoorStartOpen(delta)
    \/ \E delta \in Deltas : DoorFrame(delta)

FrameTurnsDoor == \E delta \in 1 .. MaxDelta : DoorFrame(delta)

SpecLeaf ==
    InitLeaf /\ [][NextLeaf]_vars /\ WF_vars(FrameTurnsDoor)

\* a trigger of either kind, with and without once, and the events it gets
Triggers ==
    { [kind |-> k, once |-> o, done |-> FALSE, inside |-> FALSE, calls |-> <<>>,
       seen |-> 0, entered |-> FALSE] : k \in {"box", "proximity"}, o \in BOOLEAN }

InitTrigger ==
    /\ bodyPresent = FALSE
    /\ override = Null
    /\ plcEnabled = TRUE
    /\ axes = [x |-> 0, y |-> 0]
    /\ lookDelta = [dx |-> 0, dy |-> 0]
    /\ touchMode = FALSE
    /\ pos = InitialPos
    /\ linvel = ZeroVel
    /\ camYaw = 0
    /\ camVertical = FALSE
    /\ speed = SceneSpeed
    /\ elapsed = 0
    /\ obs = [op |-> "init"]
    /\ bobEnabled = FALSE
    /\ bob = BobRest
    /\ feet = NoFeet
    /\ door = Null
    /\ trigger \in Triggers
    /\ sound = SoundAtLoad

NextTrigger ==
    \/ IntersectionEnter
    \/ IntersectionExit
    \/ \E d \in 0 .. MaxDistance : ProximityFrame(d)

SpecTrigger == InitTrigger /\ [][NextTrigger]_vars

\* the look-at slerp: requests that lock the look onto a target a quarter
\* turn away, slowly (5 /s), faster than one frame can follow (20 /s) and
\* backwards (-5 /s), a request that leaves the look free and one without a
\* target; frames and the mouse
LookDetails ==
    { [durationSec |-> MaxDuration, moveDelaySec |-> 1,
       lookAt |-> <<QuarterTurn>>, lookSlerp |-> 5 * Milli],
      [durationSec |-> MaxDuration, moveDelaySec |-> 2,
       lookAt |-> <<QuarterTurn>>, lookSlerp |-> 20 * Milli],
      [durationSec |-> MaxDuration, moveDelaySec |-> 2,
       lookAt |-> <<QuarterTurn>>, lookSlerp |-> -5 * Milli],
      [durationSec |-> MaxDuration, moveDelaySec |-> 1, lockLook |-> FALSE,
       lookAt |-> <<QuarterTurn>>, lookSlerp |-> 20 * Milli],
      [durationSec |-> MaxDuration, moveDelaySec |-> 1] }

NextLook ==
    \/ MountBody
    \/ \E d \in LookDetails : ScriptedMove(d)
    \/ \E delta \in Deltas : Tick(delta)
    \/ \E dyaw \in {-1, 1}, v \in BOOLEAN : MouseLook(dyaw, v)

SpecLook == InitDesktop /\ [][NextLook]_vars

\* the moving phase measured: the door's request, a request of a short delay
\* and one whose delay outlasts its duration, told apart by their durations;
\* the clock counts the frame time of the frames that found canMove true
MovingDetails ==
    { DoorMove,
      [durationSec |-> MaxDuration + 1, distance |-> 12, moveDelaySec |-> 1],
      [durationSec |-> MaxDuration - 1, distance |-> 12, moveDelaySec |-> MaxDuration + 1] }

\* the move delay the request of an override asked for
RequestedDelay(ov) ==
    LET d == CHOOSE m \in MovingDetails : m.durationSec = ov.duration
    IN d.moveDelaySec

\* the time an override would move if its timers were read continuously
MovingShare(ov) == Max(0, ov.duration - RequestedDelay(ov))

MovingTick(delta) ==
    /\ Frame(delta)
    /\ elapsed' = IF bodyPresent /\ override # Null /\ canMove(override) /\ elapsed >= 0
                  THEN elapsed + delta
                  ELSE elapsed

NextMoving ==
    \/ MountBody
    \/ \E d \in MovingDetails : ScriptedMove(d)
    \/ \E delta \in Deltas : MovingTick(delta)

SpecMoving == InitDesktop /\ [][NextMoving]_vars

\* footstep events at any of the spacings, with loaded and missing samples
NextSound == \E dt \in FootstepSpacing, has \in BOOLEAN : FootstepEvent(dt, has)

SpecSound == InitDesktop /\ [][NextSound]_vars

\* the frame mapper on its own: points of an anchor's local frame taken to
\* world space with the anchor's matrix and back with its inverse
MapRange == 2
LocalPoints ==
    { [x |-> px, y |-> py, z |-> pz] :
      px \in (-MapRange) .. MapRange, py \in {0, 1}, pz \in (-MapRange) .. MapRange }

MapThereAndBack(A, p) ==
    /\ obs' = [op |-> "map", anchor |-> A, local |-> p,
               world |-> ApplyMatrix4(A, p),
               back |-> ApplyMatrix4(Invert(A), ApplyMatrix4(A, p))]
    /\ UNCHANGED <<speed, bodyPresent, override, plcEnabled, axes, lookDelta, touchMode,
                   pos, linvel, camYaw, camVertical, elapsed,
                   bobEnabled, bobVars, sceneVars>>

NextMapper ==
    \/ \E p \in LocalPoints : MapThereAndBack(door.end, p)
    \/ \E p \in LocalPoints : MapThereAndBack(door.start, p)

InitMapper == InitPortal /\ pos = [x |-> EndAt.x, y |-> 0, z |-> EndAt.z] /\ camYaw = 0

SpecMapper == InitMapper /\ [][NextMapper]_vars

----------------------------------------------------------------------------
(* Steps of the controller, for properties of single steps *)

\* a step in which the teleport handler ran with the body present
TeleportHandled == obs'.op = "teleport" /\ obs'.body /\ obs' # obs

\* a step in which a request handler ran with the body handle absent
RequestWithoutBody == ~bodyPresent /\ obs'.op \in {"teleport", "move"} /\ obs' # obs

\* the frame just run came right after a teleport the handler carried out
TickAfterTeleport ==
    /\ obs.op = "tick" /\ obs.body
    /\ obs.prev.op = "teleport" /\ obs.prev.body

\* an override still delaying whose delay left is not shorter than its time left
OutlastsDuration(ov) ==
    /\ ov # Null
    /\ ov.moveDelayLeft > 0
    /\ ov.moveDelayLeft >= ov.timeLeft

----------------------------------------------------------------------------
(* Claims *)

\* C1: a teleport handled with the body present discards the override,
\* zeroes the body's linear velocity and re-enables look control, whatever
\* the controller was doing; the frame that follows it finds canMove true
\* and the controller free, and leaves it free.
C1_TeleportLeavesFree ==
    /\ [][TeleportHandled
            => (override' = Null /\ linvel' = ZeroVel /\ plcEnabled')]_vars
    /\ [](TickAfterTeleport
            => (obs.canMove /\ obs.from = "free" /\ override = Null /\ plcEnabled))

\* a frame ran right after a teleport that interrupted a look-locked
\* override in its delay phase
C1_Witness ==
    /\ TickAfterTeleport
    /\ obs.prev.from = "delay"
    /\ obs.from = "free"
    /\ override = Null /\ plcEnabled

\* C2: a teleport with keepY, target x and z and a yaw leaves the body's Y
\* as it was, sets X and Z to the target, and after the next frame the
\* camera yaw is exactly the requested yaw; omitted coordinates keep their
\* value and an omitted yaw leaves the camera yaw unchanged.
C2_TeleportPlacesBodyAndYaw ==
    /\ (obs.op = "teleport" /\ obs.body)
          => /\ pos.x = Opt(obs.detail, "x", obs.before.x)
             /\ pos.z = Opt(obs.detail, "z", obs.before.z)
             /\ Opt(obs.detail, "keepY", FALSE) => pos.y = obs.before.y
             /\ "y" \notin DOMAIN obs.detail => pos.y = obs.before.y
             /\ camYaw = Opt(obs.detail, "yaw", obs.yawBefore)
    /\ TickAfterTeleport
          => camYaw = Opt(obs.prev.detail, "yaw", obs.prev.yawBefore)

\* C3: a teleport or scripted-move request handled while the body handle is
\* absent changes no controller state.
C3_RequestsIgnoredWithoutBody ==
    [][RequestWithoutBody
         => UNCHANGED <<override, plcEnabled, axes, lookDelta, pos, linvel, camYaw>>]_vars

\* C4: after a scripted-move request the one override of the controller is
\* exactly the override of that request (time left, duration, speed,
\* direction, look target, slerp rate and move delay), whatever override
\* was in flight before.
C4_RequestReplacesOverride ==
    obs.op = "move" => override = NewOverride(obs.detail, camYaw, camVertical)

\* a request replaced an override that was already moving by one that
\* starts in its delay phase
C4_Witness ==
    /\ obs.op = "move" /\ obs.from = "moving"
    /\ override # Null /\ override.moveDelayLeft > 0

\* C5: an override requested with the body present never exists once the
\* frame time since its request has reached its duration (its time left
\* is the duration less that frame time); and with frames of positive
\* frame time continuing, every override is eventually destroyed or
\* replaced by a new request.
C5_OverrideLivesAtMostDuration ==
    /\ []((override # Null /\ elapsed >= 0)
            => (elapsed < override.duration
                /\ override.timeLeft = override.duration - elapsed))
    /\ ((override # Null /\ bodyPresent) ~> (override = Null \/ obs.op = "move"))

\* a frame destroyed an override that had gone through its delay phase
C5_Witness ==
    /\ obs.op = "tick" /\ obs.body /\ obs.from = "moving"
    /\ obs.prev.op = "tick"
    /\ override = Null

\* C6: in the start door scenario (2.2 s, 2.4 m, look locked, delay 0.35 s,
\* body present): a frame run before 0.35 s of frame time have passed since
\* the request finds canMove false and a zero desired velocity; a frame run
\* from 0.35 s on finds canMove true and a desired speed of 2.4 / 2.2 m/s
\* (to the centimetre per second); and once 2.2 s have passed no override
\* exists.
C6_DoorScenario ==
    (override # Null /\ elapsed >= 0)
        => LET d == Desired(override, axes, camYaw, speed)
               v == Abs(d.x) + Abs(d.z)
           IN /\ elapsed < DoorDuration
              /\ elapsed < DoorDelay => (~canMove(override) /\ v = 0)
              /\ elapsed >= DoorDelay
                    => /\ canMove(override)
                       /\ v * DoorDuration <= DoorDistance * TicksPerSec
                       /\ DoorDistance * TicksPerSec < (v + 1) * DoorDuration

\* the last frame of the door's move ran at full scripted speed
C6_Witness ==
    /\ obs.op = "tick" /\ obs.body /\ obs.from = "moving"
    /\ override # Null /\ elapsed = DoorDuration - 1
    /\ Abs(linvel.x) + Abs(linvel.z) = override.speed
    /\ override.speed * DoorDuration <= DoorDistance * TicksPerSec

\* C7: a frame run while an override is in its delay phase commands a zero
\* horizontal velocity on both axes, whatever the body's velocity and the
\* input axes were.
C7_DelayFreezesBody ==
    (obs.op = "tick" /\ obs.body /\ obs.from = "delay")
        => (linvel.x = 0 /\ linvel.z = 0)

\* a frame of the delay phase stopped a body that was moving, with the
\* input axes deflected
C7_Witness ==
    /\ obs.op = "tick" /\ obs.body /\ obs.from = "delay"
    /\ obs.moved /\ hasAxesMove(axes)
    /\ linvel.x = 0 /\ linvel.z = 0

\* C8: the vertical velocity a frame writes is the one it read from the
\* body, in every branch; a scripted-move request writes no velocity; a
\* teleport writes zero.
C8_VerticalVelocityUntouched ==
    /\ []((obs.op = "tick" /\ obs.body) => obs.y[2] = obs.y[1])
    /\ [][(obs'.op = "move" /\ obs' # obs) => linvel' = linvel]_vars
    /\ [][TeleportHandled => linvel'.y = 0]_vars

\* a frame of the delay phase froze a falling body and kept its fall
C8_Witness ==
    /\ obs.op = "tick" /\ obs.body /\ obs.from = "delay"
    /\ obs.moved /\ obs.y[1] # 0 /\ linvel.y = obs.y[1]
    /\ linvel.x = 0

\* C9: in every state, for whatever input axes and frame time the next
\* frame may find: with an override in place the desired and the commanded
\* velocity are the same for all input axes; with none, the desired
\* velocity is zero exactly when the axes are within the dead zone.
C9_OneSourceOfVelocity ==
    \A a \in AxesInputs :
        LET d == Desired(override, axes, camYaw, speed)
            da == Desired(override, a, camYaw, speed)
        IN /\ override # Null
                 => /\ da = d
                    /\ \A delta \in Deltas :
                          Commanded(override, linvel, da, delta)
                              = Commanded(override, linvel, d, delta)
           /\ override = Null
                 => ((da.x = 0 /\ da.z = 0) <=> ~hasAxesMove(a))

\* a frame of an override's moving phase ran with the input axes deflected
C9_Witness ==
    /\ obs.op = "tick" /\ obs.body /\ obs.from = "moving"
    /\ override # Null /\ canMove(override) /\ hasAxesMove(axes)
    /\ (linvel.x # 0 \/ linvel.z # 0)

\* C10: a blended velocity lies between the velocity before the frame and
\* the desired one, ends included, whatever the frame time; and a velocity
\* equal to the desired one stays there.
C10_BlendNeverOvershoots ==
    obs.op = "blend"
        => /\ Min(obs.prev, obs.target) <= linvel.x
           /\ linvel.x <= Max(obs.prev, obs.target)
           /\ obs.prev = obs.target => linvel.x = obs.target

\* a frame closed a gap smaller than its largest step and landed on the
\* desired velocity
C10_Witness ==
    /\ obs.op = "blend" /\ obs.frames > 0
    /\ obs.prev # obs.target /\ linvel.x = obs.target
    /\ Abs(obs.target - obs.prev) < deceleration

\* the velocity of full speed along the camera's right vector
AlongRight(yaw, v) ==
    LET right == RightOf(Forward(yaw))
    IN [x |-> TDiv(right.x * v, Milli), z |-> TDiv(right.z * v, Milli)]

\* C11: with no override and the strafe axis held at 1 from rest (base
\* speed 2 m/s or the scene's 1 m/s, acceleration 18 m/s^2), on every frame
\* by which the frame time has added up to speed / acceleration the
\* commanded velocity is exactly the base speed along the camera's right
\* vector, and it stays there.
C11_WalkReachesSpeed ==
    (obs.op = "tick" /\ acceleration * elapsed >= speed)
        => /\ linvel.x = AlongRight(camYaw, speed).x
           /\ linvel.z = AlongRight(camYaw, speed).z

\* the axis was held for a second at base speed 2 and the body moves at
\* 2 m/s to the right
C11_Witness ==
    /\ obs.op = "tick" /\ axes = HeldAxes /\ override = Null
    /\ speed = DefaultSpeed /\ elapsed >= TicksPerSec
    /\ Speed2D(linvel) = DefaultSpeed
    /\ linvel.x = AlongRight(camYaw, DefaultSpeed).x

\* C12: whatever frames, movement, requests and teleports came before, the
\* bob phase is at least 0 and less than a full turn.
C12_PhaseWithinTurn == bob.phase >= 0 /\ bob.phase < PhaseTurn

\* a frame took the phase over the end of the turn, back to its start
C12_Witness ==
    /\ obs.op = "tick" /\ obs.body
    /\ feet.advance > 0 /\ bob.phase < feet.advance
    /\ "right" \in { feet.steps[i] : i \in DOMAIN feet.steps }

\* C13: a frame that advances the phase by less than half a turn reports at
\* most one footstep; and as long as every frame so far has done so, a
\* reported footstep is never the foot reported last before it.
C13_FootstepsAlternate ==
    /\ feet.advance < PhasePi => Len(feet.steps) <= 1
    /\ (feet.normal /\ feet.steps # <<>>) => feet.steps[1] # feet.before

\* after a left step and a halt, a frame of the resumed walk reported the
\* right foot
C13_Witness ==
    /\ feet.normal /\ feet.steps = <<"right">> /\ feet.before = "left"
    /\ obs.op = "tick" /\ obs.prev.op = "teleport"

\* C14: every frame run with the body present consumes the pending look
\* delta and leaves none behind, so that no look delta outlives a frame.
C14_LookDeltaConsumedEveryTick ==
    (obs.op = "tick" /\ obs.body) => lookDelta = [dx |-> 0, dy |-> 0]

\* C15: the speed the bob animator reads on a frame is the magnitude of the
\* horizontal velocity the frame commanded to the body; on a frame of the
\* delay phase it reads zero.
C15_BobReadsCommandedSpeed ==
    (obs.op = "tick" /\ obs.body)
        => /\ feet.speed2D = feet.set
           /\ obs.from = "delay" => feet.speed2D = 0

\* C16: after a door teleport the player's local X and Z offset relative to
\* DoorStart equals the local X and Z offset it had relative to DoorEnd
\* before the teleport.
C16_DoorOffsetCarriedOver ==
    (obs.op = "door" /\ obs.body) =>
        LET after == ApplyMatrix4(Invert(door.start), pos)
        IN after.x = obs.local.x /\ after.z = obs.local.z

\* C17: when the player's planar distance from DoorEnd is zero, the direction
\* the facing yaw is computed from has zero length, and the door teleport
\* keeps the camera's current yaw.
C17_ZeroDirectionKeepsYaw ==
    (obs.op = "door" /\ obs.body /\ obs.local.x = 0 /\ obs.local.z = 0) =>
        camYaw = obs.yawBefore

\* C18: mapping a point from an anchor's local frame to world space with
\* the anchor's matrix and back with the inverse of the matrix recovers it.
C18_MapperRoundTrip == obs.op = "map" => obs.back = obs.local

\* a turned anchor took a point off its axes to another place and back
C18_Witness ==
    /\ obs.op = "map"
    /\ obs.anchor.rot = QuarterTurn
    /\ obs.local.x # 0 /\ obs.local.z # 0 /\ obs.local.x # obs.local.z
    /\ obs.world # obs.local
    /\ obs.back = obs.local

\* C19: a trigger created with once calls onEnter at most once, on the
\* first enter, and calls neither onEnter nor onExit afterwards.
C19_OnceTriggerFiresOnce ==
    (trigger # Null /\ trigger.once) =>
        LET enters == { i \in DOMAIN trigger.calls : trigger.calls[i] = "enter" }
        IN /\ Cardinality(enters) <= 1
           /\ \A i \in enters : i = Len(trigger.calls)
           /\ trigger.entered => enters # {}

\* onEnter was called once and two later events called nothing
C19_Witness ==
    /\ trigger # Null
    /\ trigger.once
    /\ trigger.done
    /\ trigger.calls # <<>>
    /\ trigger.calls[Len(trigger.calls)] = "enter"
    /\ trigger.seen >= Len(trigger.calls) + 2

\* C20 as stated: every override that starts in its delay phase and is not
\* replaced or cancelled reaches the moving phase before it is destroyed, so
\* no frame destroys an override that was still delaying when the frame began.
C20_DelayedOverrideReachesMoving ==
    (obs.op = "tick" /\ obs.body /\ obs.from = "delay") => override # Null

\* C20 as amended: an override reaches the moving phase only if its move
\* delay is shorter than its duration.  Once the delay left is not shorter
\* than the time left, no frame of that override finds canMove true, and the
\* override stays so until a frame destroys it or a request replaces it.
C20_DelayNotShorterNeverMoves ==
    [][OutlastsDuration(override) =>
          /\ obs'.op = "tick" => ~obs'.canMove
          /\ \/ override' = Null
             \/ OutlastsDuration(override')
             \/ obs'.op = "move"]_vars

\* frames ran an override down that never left its delay phase
C20_Witness ==
    /\ obs.op = "tick" /\ obs.body /\ obs.from = "delay" /\ ~obs.canMove
    /\ obs.prev.op = "tick"
    /\ override = Null

\* C21: while an override is active, free look is locked exactly when the
\* most recent scripted-move request (the one that made the override) asked
\* for lockLook.
C21_LookLockFollowsLatestRequest ==
    override # Null => (plcEnabled <=> ~override.lockLook)

\* C22: whenever no override is active look control is enabled; and with the
\* body present and frames continuing, a look lock is eventually released
\* (or a new request takes over).
C22_NoOverrideMeansFreeLook ==
    /\ [](override = Null => plcEnabled)
    /\ ((~plcEnabled /\ bodyPresent) ~> (plcEnabled \/ obs.op = "move"))

\* a frame ended a look-locking override and gave look control back
C22_Witness ==
    /\ obs.op = "tick" /\ obs.body /\ obs.from # "free"
    /\ obs.prev.op = "move" /\ Opt(obs.prev.detail, "lockLook", TRUE)
    /\ override = Null
    /\ plcEnabled

C24_SlerpOnlyInDelayPhase ==
    /\ [](override # Null =>
            \A delta \in Deltas : SlerpK(override, delta) \in 0 .. Milli)
    /\ [][(obs'.op = "tick" /\ (camYaw' # camYaw \/ camVertical' # camVertical))
            => /\ bodyPresent
               /\ override # Null
               /\ override.lockLook
               /\ override.lookAt # <<>>
               /\ override.moveDelayLeft > 0]_vars

\* frames of the delay phase turned the locked camera from the yaw it had at
\* the request onto the look target
C24_Witness ==
    /\ obs.op = "tick" /\ obs.body /\ obs.from = "delay"
    /\ override # Null /\ override.lockLook /\ override.lookAt = <<QuarterTurn>>
    /\ override.dir = Forward(0)
    /\ camYaw = QuarterTurn

\* C25: the direction of an override is the unit, horizontal forward of the
\* camera at the request ((0,0,-1) when the camera looks straight up or
\* down); it stays the same for as long as the override lives, and in the
\* moving phase the desired velocity is that direction times the override's
\* speed whichever way the camera is turned.
C25_DirectionCapturedOnce ==
    /\ [](obs.op = "move" =>
            /\ override.dir = (IF camVertical THEN [x |-> 0, z |-> -Milli]
                                ELSE Forward(camYaw))
            /\ LengthSq(override.dir) = Milli * Milli)
    /\ []((override # Null /\ canMove(override)) =>
            \A yaw \in (-MaxYaw) .. MaxYaw :
                Desired(override, axes, yaw, speed) =
                    [x |-> TDiv(override.dir.x * override.speed, Milli),
                     z |-> TDiv(override.dir.z * override.speed, Milli)])
    /\ [][(override # Null /\ override' # Null /\ obs'.op # "move")
            => override'.dir = override.dir]_vars

\* the body moves along the direction captured at the request while the
\* camera, turned by the slerp, looks a quarter turn away from it
C25_Witness ==
    /\ obs.op = "tick" /\ obs.body /\ obs.from = "moving"
    /\ override # Null
    /\ override.dir = Forward(0)
    /\ camYaw = QuarterTurn
    /\ linvel.x = 0 /\ linvel.z < 0

\* C26 as stated: an override that a frame destroys has spent exactly its
\* duration less its move delay in the moving phase, which with a positive
\* delay is less than the duration (a displacement below the distance asked);
\* read for the overrides whose delay is shorter than their duration.
C26_MovesExactlyDurationLessDelay ==
    [][(/\ override # Null /\ override' = Null /\ obs'.op = "tick" /\ elapsed' >= 0
        /\ RequestedDelay(override) < override.duration)
        => /\ elapsed' = override.duration - RequestedDelay(override)
           /\ elapsed' < override.duration]_vars

\* C26 as amended: the duration timer runs during the delay phase as well
\* (in the delay phase the time left less the delay left stays at duration
\* less delay, and no moving time is counted); the moving phase begins with
\* the first frame that starts with the delay run out and ends with the frame
\* on which the timer runs out, so the frame time spent moving is within one
\* frame time of duration less delay (of zero when the delay is not shorter
\* than the duration).
C26_MovesAboutDurationLessDelay ==
    /\ []((override # Null /\ elapsed >= 0) =>
            IF override.moveDelayLeft > 0
            THEN /\ elapsed = 0
                 /\ override.timeLeft - override.moveDelayLeft
                        = override.duration - RequestedDelay(override)
            ELSE /\ elapsed + override.timeLeft <= MovingShare(override)
                 /\ elapsed + override.timeLeft > MovingShare(override) - MaxDelta)
    /\ [][(override # Null /\ override' = Null /\ obs'.op = "tick" /\ elapsed' >= 0)
            => Abs(elapsed' - MovingShare(override)) < MaxDelta]_vars

\* the door's override is gone and moved for one step less than 2.2 s - 0.35 s
C26_Witness ==
    /\ obs.op = "tick" /\ obs.body /\ obs.from = "moving"
    /\ override = Null
    /\ elapsed = DoorDuration - DoorDelay - 1

C30_FootstepsRateLimited ==
    /\ [](/\ (\A i \in 1 .. (Len(sound.accepted) - 1) :
                sound.accepted[i + 1] - sound.accepted[i] >= FootstepGap)
           /\ (\A j \in 1 .. (Len(sound.played) - 1) :
                sound.played[j + 1] - sound.played[j] >= FootstepGap)
           /\ (sound.accepted # <<>> =>
                 sound.lastFootstepAt = sound.accepted[Len(sound.accepted)]))
    /\ [][(sound'.events = sound.events + 1
            /\ sound'.now - sound.lastFootstepAt < FootstepGap)
            => /\ sound'.lastFootstepAt = sound.lastFootstepAt
               /\ sound'.accepted = sound.accepted
               /\ sound'.played = sound.played]_vars

\* a footstep was played, one 109 ms later was dropped, and one exactly
\* 110 ms after the first was played
C30_Witness ==
    /\ Len(sound.played) >= 2
    /\ sound.events >= Len(sound.accepted) + 1
    /\ sound.played[Len(sound.played)]
          = sound.played[Len(sound.played) - 1] + FootstepGap
    /\ sound.now = sound.lastFootstepAt

\* C28: an interaction that runs the door-end routine with the player
\* farther from DoorEnd than the approach threshold leaves a retry of the
\* routine scheduled (together with the approach walk it dispatched).
C28_FarDoorEndApproaches ==
    (obs.op = "interact"
        /\ DistanceSq(WorldPosition(door.end), CameraPos)
               > ApproachThreshold * ApproachThreshold)
        => door.retries > 0

\* C29: every door animation ends at its target: the rotation stays between
\* the closed and the open angle and a frame never takes it past its target,
\* the door with no timer pending and no animation running is at its closed
\* rotation, and with frames continuing an animation that runs with no timer
\* pending ends (or a new openStartDoor call sets a timer).
C29_DoorAnimationTerminates ==
    /\ [](/\ door.rotationY <= door.initialY
          /\ door.rotationY >= door.initialY - HalfPi
          /\ (door.timers = 0 /\ ~door.opening) => door.rotationY = door.initialY)
    /\ [][door.targetY' = door.targetY =>
              \/ door.rotationY' = door.targetY
              \/ Sign(door.targetY - door.rotationY') = Sign(door.targetY - door.rotationY)]_vars
    /\ ((door.opening /\ door.timers = 0) ~> (~door.opening \/ door.timers > 0))

\* the parts of C29 that no run violates: the bounds of the rotation, the
\* frame never passing the target, the resting rotation
C29_RotationWithinTarget ==
    /\ [](/\ door.rotationY <= door.initialY
          /\ door.rotationY >= door.initialY - HalfPi
          /\ (door.timers = 0 /\ ~door.opening) => door.rotationY = door.initialY)
    /\ [][door.targetY' = door.targetY =>
              \/ door.rotationY' = door.targetY
              \/ Sign(door.targetY - door.rotationY') = Sign(door.targetY - door.rotationY)]_vars

====
